---- MODULE Spec2Model ----
(***************************************************************************)
(* HPCDesktop-Launcher: the descriptor-driven navigation and open-action   *)
(* dispatch engine of launcher.py (LauncherWindow), with the history       *)
(* recorder that writes descriptors back into the tree.                    *)
(*                                                                         *)
(* Conventions of the model                                                *)
(*  - A path segment, and more generally one symbol of a Python string, is *)
(*    a record [n, ts, k, ext]: a plain name (Seg), a file name with an    *)
(*    extension (File) or a history file name "<ts>[-k].<ext>" (Hist).     *)
(*  - A Python string is a sequence of symbols; "/" is the symbol Slash.   *)
(*  - An absolute path is the sequence of its segments; the root directory *)
(*    "/" is <<>>.  A path may hold ".." segments until abspath removes    *)
(*    them.  There are no symbolic links.                                  *)
(*  - A JSON value is a record [t, s, f, n]: its type, and its string,     *)
(*    its fields or its number.                                            *)
(***************************************************************************)
EXTENDS Integers, Sequences, FiniteSets, TLC

\* ------------------------------------------------------------------ bounds

MaxClock == 1

MaxRecords == 2

MaxWindows == 1

\* ----------------------------------------------------------------- symbols

Seg(n) == [n |-> n, ts |-> -1, k |-> -1, ext |-> ""]

File(n, e) == [n |-> n, ts |-> -1, k |-> -1, ext |-> e]

\* "<ts>.<e>" when k = 0, "<ts>-<k>.<e>" otherwise
Hist(t, k, e) == [n |-> "", ts |-> t, k |-> k, ext |-> e]

Slash == Seg("/")

DotDot == Seg("..")

Quote == Seg("\"")

Backslash == Seg("\\")

\* str.lower() of a file extension
Lower(e) == IF e = "JSON" THEN "json" ELSE e

\* --------------------------------------------------------------- JSON values

JStr(s) == [t |-> "str", s |-> s, f |-> <<>>, n |-> 0]

JNum(n) == [t |-> "num", s |-> <<>>, f |-> <<>>, n |-> n]

JNull == [t |-> "null", s |-> <<>>, f |-> <<>>, n |-> 0]

\* a list of n elements
JList(n) == [t |-> "list", s |-> <<>>, f |-> <<>>, n |-> n]

JObj(f) == [t |-> "obj", s |-> <<>>, f |-> f, n |-> 0]

\* dict.get(key): None (JNull) when the key is absent
Get(d, key) == IF key \in DOMAIN d.f THEN d.f[key] ELSE JNull

\* Python truthiness of a loaded JSON value
Truthy(v) ==
    CASE v.t = "str" -> v.s # <<>>
      [] v.t = "num" -> v.n # 0
      [] v.t = "list" -> v.n # 0
      [] v.t = "obj" -> DOMAIN v.f # {}
      [] OTHER -> FALSE

RECURSIVE EscapeStr(_)
\* json.dump of a string: a quote or a backslash gets a backslash before it
EscapeStr(s) ==
    IF s = <<>> THEN <<>>
    ELSE IF Head(s) \in {Quote, Backslash}
         THEN <<Backslash, Head(s)>> \o EscapeStr(Tail(s))
         ELSE <<Head(s)>> \o EscapeStr(Tail(s))

RECURSIVE UnescapeStr(_)
\* json.load of a string: a backslash stands for the symbol after it
UnescapeStr(s) ==
    IF s = <<>> THEN <<>>
    ELSE IF Head(s) = Backslash /\ Len(s) >= 2
         THEN <<s[2]>> \o UnescapeStr(Tail(Tail(s)))
         ELSE <<Head(s)>> \o UnescapeStr(Tail(s))

RECURSIVE json_dump(_)
\* the text json.dump writes for a value
json_dump(v) ==
    CASE v.t = "str" -> JStr(EscapeStr(v.s))
      [] v.t = "obj" -> JObj([key \in DOMAIN v.f |-> json_dump(v.f[key])])
      [] OTHER -> v

RECURSIVE json_load(_)
\* the value json.load reads from a well-formed text
json_load(v) ==
    CASE v.t = "str" -> JStr(UnescapeStr(v.s))
      [] v.t = "obj" -> JObj([key \in DOMAIN v.f |-> json_load(v.f[key])])
      [] OTHER -> v

\* ------------------------------------------------------------ file contents

\* a file holding well-formed JSON text
JsonFile(v) == [kind |-> "json", val |-> json_dump(v)]

\* a file whose text is not JSON (a syntax error, a truncated write)
BadFile == [kind |-> "bad", val |-> JNull]

OtherFile(kind) == [kind |-> kind, val |-> JNull]

\* --------------------------------------------------------------------- paths

RECURSIVE Norm(_, _)
Norm(acc, rest) ==
    IF rest = <<>> THEN acc
    ELSE IF Head(rest) = DotDot
         THEN Norm(IF acc = <<>> THEN <<>> ELSE SubSeq(acc, 1, Len(acc) - 1), Tail(rest))
         ELSE Norm(Append(acc, Head(rest)), Tail(rest))

\* os.path.abspath of an absolute path: ".." segments removed textually
abspath(p) == Norm(<<>>, p)

\* os.path.isabs of a string
isabs(s) == s # <<>> /\ s[1] = Slash

\* the segments of a path string
Segments(s) == SelectSeq(s, LAMBDA t : t # Slash)

\* os.path.join(base, s)
join(base, s) == IF isabs(s) THEN Segments(s) ELSE base \o Segments(s)

dirname(p) == SubSeq(p, 1, Len(p) - 1)

basename(p) == p[Len(p)]

IsPrefix(p, q) == Len(p) <= Len(q) /\ SubSeq(q, 1, Len(p)) = p

\* ---------------------------------------------------------------- variables

VARIABLES
    dirs,            \* the directories of the filesystem (a set of paths)
    files,           \* the regular files: path -> content
    base_path,       \* LauncherWindow.base_path
    root_base_path,  \* LauncherWindow.root_base_path
    icon_list,       \* the items of LauncherWindow.icon_list, in order
    selected,        \* the index of the selected item of icon_list, 0 for none
    web_view,        \* what LauncherWindow.web_view was last told to show
    breadcrumbs,     \* the crumbs of the toolbar: <<label, target_path>>
    child_windows,   \* LauncherWindow.child_windows
    launched,        \* the processes subprocess.Popen started, in order
    alive,           \* the host process runs
    startup,         \* main(): the descriptor file still to be executed
    now,             \* the wall clock, in seconds
    nrec,            \* the number of calls of record_history so far
    recorders,       \* the calls of record_history under way in the launcher
                     \* processes that share the root: launcher -> position
    last             \* the last operation and what it observed

vars == <<dirs, files, base_path, root_base_path, icon_list, selected, web_view,
          breadcrumbs, child_windows, launched, alive, startup, now, nrec, recorders,
          last>>

\* ---------------------------------------------------------------- filesystem

RECURSIVE Walk(_, _, _)
\* the kernel's lookup of an absolute path that may hold "..": every
\* component but the last must be a directory
Walk(D, cur, rest) ==
    IF rest = <<>> THEN [ok |-> TRUE, p |-> cur]
    ELSE IF Head(rest) = DotDot
         THEN IF cur \in D
              THEN Walk(D, IF cur = <<>> THEN <<>> ELSE dirname(cur), Tail(rest))
              ELSE [ok |-> FALSE, p |-> <<>>]
         ELSE IF Tail(rest) = <<>> \/ Append(cur, Head(rest)) \in D
              THEN Walk(D, Append(cur, Head(rest)), Tail(rest))
              ELSE [ok |-> FALSE, p |-> <<>>]

\* os.path.isdir
isdir(D, p) == LET w == Walk(D, <<>>, p) IN w.ok /\ w.p \in D

\* os.path.isfile
isfile(D, F, p) == LET w == Walk(D, <<>>, p) IN w.ok /\ w.p \in DOMAIN F

\* os.path.exists
exists(D, F, p) == isdir(D, p) \/ isfile(D, F, p)

\* os.listdir, as paths
listdir(D, F, d) == {p \in D \cup DOMAIN F : p # <<>> /\ dirname(p) = d}

\* the *.json names of the model that are no history names, in the order of
\* Python's string comparison (upper case before lower case)
FileOrder ==
    << File("Z", "JSON"), File("a", "json"), File("bad", "json"), File("d", "json"),
       File("e", "json"),
       File("h", "json"), File("j", "json"), File("k", "json"), File("l", "json"), File("m", "json"),
       File("n", "json"), File("o", "json"), File("p", "json"), File("s", "json"),
       File("t", "json"), File("u", "json"), File("v", "json"), File("x", "json") >>

RankOf == [f \in {FileOrder[i] : i \in 1..Len(FileOrder)} |->
              CHOOSE i \in 1..Len(FileOrder) : FileOrder[i] = f]

Rank(f) == RankOf[f]

\* a < b as file names of one directory compared as Python strings: a history
\* name starts with a digit and sorts before a letter; "<ts>-<k>.json" sorts
\* before "<ts>.json" because "-" < "." (k < 10)
NameLess(a, b) ==
    IF a.ts >= 0 /\ b.ts >= 0
    THEN \/ a.ts < b.ts
         \/ a.ts = b.ts /\ a.k # b.k /\ a.k >= 1 /\ (b.k = 0 \/ a.k < b.k)
    ELSE IF a.ts >= 0 THEN TRUE
    ELSE IF b.ts >= 0 THEN FALSE
    ELSE Rank(a) < Rank(b)

RECURSIVE Listed(_)
\* the entries in the order os.listdir happens to give them
Listed(S) ==
    IF S = {} THEN <<>>
    ELSE LET x == CHOOSE y \in S : TRUE IN <<x>> \o Listed(S \ {x})

\* sorted() of a set of paths of one directory
sorted(S) == SortSeq(Listed(S), LAMBDA x, y : NameLess(basename(x), basename(y)))

find_object_files(D, F, base) ==
    IF ~isdir(D, base) THEN <<>>
    ELSE sorted({p \in listdir(D, F, base) : Lower(basename(p).ext) = "json"})

\* the loaded dictionary, or None (JNull)
load_object_descriptor(F, p) ==
    IF p \in DOMAIN F /\ F[p].kind = "json" /\ json_load(F[p].val).t = "obj"
    THEN json_load(F[p].val)
    ELSE JNull

\* a faulty variant: the path is returned whether or not the file exists
resolve_icon_path_NoFileTest(D, F, base, icon_value) ==
    IF ~Truthy(icon_value)
    THEN [raised |-> FALSE, some |-> FALSE, p |-> <<>>]
    ELSE IF icon_value.t # "str"
    THEN [raised |-> TRUE, some |-> FALSE, p |-> <<>>]
    ELSE IF isabs(icon_value.s)
    THEN [raised |-> FALSE, some |-> TRUE, p |-> Segments(icon_value.s)]
    ELSE [raised |-> FALSE, some |-> TRUE, p |-> abspath(join(base, icon_value.s))]

\* [raised, some, p]: a TypeError out of os.path.isabs for a truthy value
\* that is no string, else the existing file or None
resolve_icon_path(D, F, base, icon_value) ==
    IF ~Truthy(icon_value)
    THEN [raised |-> FALSE, some |-> FALSE, p |-> <<>>]
    ELSE IF icon_value.t # "str"
    THEN [raised |-> TRUE, some |-> FALSE, p |-> <<>>]
    ELSE IF isabs(icon_value.s)
    THEN IF isfile(D, F, Segments(icon_value.s))
         THEN [raised |-> FALSE, some |-> TRUE, p |-> Segments(icon_value.s)]
         ELSE [raised |-> FALSE, some |-> FALSE, p |-> <<>>]
    ELSE IF isfile(D, F, abspath(join(base, icon_value.s)))
         THEN [raised |-> FALSE, some |-> TRUE, p |-> abspath(join(base, icon_value.s))]
         ELSE [raised |-> FALSE, some |-> FALSE, p |-> <<>>]

\* str(descriptor.get("title") or <file name without extension>)
ItemText(descriptor, json_path) ==
    LET title == Get(descriptor, "title") IN
    IF ~Truthy(title) THEN <<[basename(json_path) EXCEPT !.ext = ""]>>
    ELSE IF title.t = "str" THEN title.s
    ELSE <<Seg("str()")>>

\* the loop's test "if not descriptor: continue": None and {} are both skipped
SkipDescriptor(descriptor) == ~Truthy(descriptor)

RECURSIVE PopulateLoop(_, _, _, _, _)
PopulateLoop(D, F, base, object_files, acc) ==
    IF object_files = <<>> THEN [items |-> acc, raised |-> FALSE]
    ELSE LET json_path == Head(object_files)
             descriptor == load_object_descriptor(F, json_path)
             icon == resolve_icon_path(D, F, base, Get(descriptor, "icon"))
         IN IF SkipDescriptor(descriptor)
            THEN PopulateLoop(D, F, base, Tail(object_files), acc)
            ELSE IF icon.raised
            THEN [items |-> acc, raised |-> TRUE]
            ELSE PopulateLoop(D, F, base, Tail(object_files),
                     Append(acc, [text |-> ItemText(descriptor, json_path),
                                  icon |-> icon.some,
                                  descriptor |-> descriptor,
                                  json_path |-> json_path]))

\* [items, raised]: the items added to an empty icon_list, and whether the
\* loop was left by an exception
populate_objects(D, F, base) ==
    PopulateLoop(D, F, base, find_object_files(D, F, base), <<>>)

\* what the web view shows: the file p (file), or the inline page "No
\* index.html found" that names p
load_index_html(D, F, base) ==
    LET index_html_path == base \o <<File("index", "html")>>
    IN [file |-> isfile(D, F, index_html_path), p |-> index_html_path]

\* [raised, view]: a TypeError out of os.path.isabs for a truthy details value
\* that is no string, else the page shown
load_details_for_descriptor(D, F, base, descriptor) ==
    LET details_value == Get(descriptor, "details")
        details_path == IF isabs(details_value.s) THEN Segments(details_value.s)
                        ELSE abspath(join(base, details_value.s))
    IN IF ~Truthy(details_value)
       THEN [raised |-> FALSE, view |-> load_index_html(D, F, base)]
       ELSE IF details_value.t # "str"
       THEN [raised |-> TRUE, view |-> load_index_html(D, F, base)]
       ELSE IF isfile(D, F, details_path)
       THEN [raised |-> FALSE, view |-> [file |-> TRUE, p |-> details_path]]
       ELSE [raised |-> FALSE, view |-> load_index_html(D, F, base)]

\* ---------------------------------------------------------------- breadcrumbs

RECURSIVE CommonLen(_, _)
CommonLen(p, q) ==
    IF p = <<>> \/ q = <<>> \/ Head(p) # Head(q) THEN 0
    ELSE 1 + CommonLen(Tail(p), Tail(q))

\* the segments of os.path.relpath(path, start), both absolute and normalised
relpath(path, start) ==
    LET i == CommonLen(path, start) IN
    [j \in 1..(Len(start) - i) |-> DotDot] \o SubSeq(path, i + 1, Len(path))

\* accum after the j-th os.path.join(accum, part)
Accum(root, parts, j) == root \o SubSeq(parts, 1, j)

Home == Seg("Home")

\* a faulty variant: the Home crumb leads to the current directory
update_breadcrumbs_HomeIsCurrent(base, root) ==
    IF abspath(base) = abspath(root) THEN << <<Home, base>> >>
    ELSE LET parts == relpath(base, root) IN
         << <<Home, base>> >> \o [j \in 1..Len(parts) |-> <<parts[j], Accum(root, parts, j)>>]

update_breadcrumbs(base, root) ==
    IF abspath(base) = abspath(root) THEN << <<Home, root>> >>
    ELSE LET parts == relpath(base, root) IN
         << <<Home, root>> >> \o [j \in 1..Len(parts) |-> <<parts[j], Accum(root, parts, j)>>]

\* [base, items, crumbs, raised]: the window after change_base_path; when
\* populate_objects raises, update_breadcrumbs is not reached
change_base_path(D, F, root, crumbs, new_base_path) ==
    LET nb == abspath(new_base_path)
        pop == populate_objects(D, F, nb)
    IN [base |-> nb,
        items |-> pop.items,
        crumbs |-> IF pop.raised THEN crumbs ELSE update_breadcrumbs(nb, root),
        raised |-> pop.raised]

\* the pages the web view may show after change_base_path: the index of the
\* new base; when populate_objects raised, load_index_html was not reached,
\* and the view is the old one, unless icon_list.clear() dropped a selection
\* and Qt ran _on_selection_changed during the clear
ViewsAfter(D, F, r, had_selection, view) ==
    IF ~r.raised THEN {load_index_html(D, F, r.base)}
    ELSE IF had_selection THEN {view, load_index_html(D, F, r.base)}
    ELSE {view}

\* ------------------------------------------------------- the initial filesystem

Str(n) == JStr(<<Seg(n)>>)

OpenAction(command, arg0) ==
    JObj([openaction |-> JObj([command |-> Str(command), arg0 |-> JStr(arg0)])])

R == <<Seg("r")>>

DirA == R \o <<Seg("a")>>

DirB == DirA \o <<Seg("b")>>

DirBad == R \o <<Seg("bad")>>

DirO == <<Seg("o")>>

HistoryDir == R \o <<Seg("History")>>

InitDirs == {<<>>, R, DirA, DirB, DirBad, DirO}

InitFiles ==
    (R \o <<File("Z", "JSON")>>) :>
        JsonFile(JObj([title |-> Str("Z"), icon |-> JStr(<<File("i", "png")>>)]))
    @@ (R \o <<File("a", "json")>>) :> JsonFile(OpenAction("path", <<Seg("a")>>))
    @@ (R \o <<File("bad", "json")>>) :> JsonFile(OpenAction("path", <<Seg("bad")>>))
    @@ (R \o <<File("e", "json")>>) :> JsonFile(JObj(<<>>))
    @@ (R \o <<File("h", "json")>>) :> JsonFile(OpenAction("path", <<Seg("History")>>))
    @@ (R \o <<File("l", "json")>>) :> JsonFile(JList(1))
    @@ (R \o <<File("m", "json")>>) :> BadFile
    @@ (R \o <<File("n", "json")>>) :> JsonFile(OpenAction("path", <<Seg("nope")>>))
    @@ (R \o <<File("o", "json")>>) :> JsonFile(OpenAction("path", <<Slash, Seg("o")>>))
    @@ (R \o <<File("p", "json")>>) :> JsonFile(OpenAction("python", <<File("plug", "py")>>))
    @@ (R \o <<File("s", "json")>>) :> JsonFile(OpenAction("shell", <<File("run", "sh")>>))
    @@ (R \o <<File("t", "json")>>) :>
        JsonFile(OpenAction("path",
            <<Slash, Seg("r"), Slash, Seg("nope"), Slash, DotDot, Slash, Seg("a")>>))
    @@ (R \o <<File("x", "json")>>) :> JsonFile(OpenAction("path", <<File("plug", "py")>>))
    @@ (R \o <<File("plug", "py")>>) :> OtherFile("py")
    @@ (R \o <<File("run", "sh")>>) :> OtherFile("sh")
    @@ (R \o <<File("i", "png")>>) :> OtherFile("png")
    @@ (DirA \o <<File("a", "json")>>) :> JsonFile(OpenAction("path", <<Seg("b")>>))
    @@ (DirA \o <<File("p", "json")>>) :>
        JsonFile(OpenAction("python", <<DotDot, Slash, File("plug", "py")>>))
    @@ (DirA \o <<File("s", "json")>>) :>
        JsonFile(OpenAction("shell", <<DotDot, Slash, File("run", "sh")>>))
    @@ (DirA \o <<File("u", "json")>>) :> JsonFile(OpenAction("path", <<DotDot>>))
    @@ (DirA \o <<File("v", "json")>>) :>
        JsonFile(OpenAction("path", <<DotDot, Slash, DotDot>>))
    @@ (DirB \o <<File("p", "json")>>) :> JsonFile(OpenAction("python", <<File("plug", "py")>>))
    @@ (DirB \o <<File("s", "json")>>) :> JsonFile(OpenAction("shell", <<File("run", "sh")>>))
    @@ (DirB \o <<File("x", "json")>>) :> JsonFile(JObj([title |-> Str("X")]))
    @@ (DirBad \o <<File("m", "json")>>) :>
        JsonFile(JObj([title |-> Str("M"), icon |-> JNum(5)]))
    @@ (DirBad \o <<File("n", "json")>>) :> JsonFile(JObj([title |-> Str("N")]))
    @@ (DirO \o <<File("a", "json")>>) :> JsonFile(JObj([openaction |-> Str("path")]))
    @@ (DirO \o <<File("e", "json")>>) :> JsonFile(JObj([openaction |-> JList(2)]))
    @@ (DirO \o <<File("k", "json")>>) :>
        JsonFile(OpenAction("path",
            <<Slash, Seg("r"), Slash, Seg("a"), Slash, Seg("b")>>))
    @@ (DirO \o <<File("l", "json")>>) :> JsonFile(OpenAction("path", <<>>))
    @@ (DirO \o <<File("m", "json")>>) :>
        JsonFile(JObj([openaction |-> JObj([command |-> Str("shell"), arg0 |-> JNum(7)])]))
    @@ (DirO \o <<File("n", "json")>>) :>
        JsonFile(OpenAction("url", <<Slash, Seg("r"), Slash, File("run", "sh")>>))
    @@ (DirO \o <<File("s", "json")>>) :>
        JsonFile(JObj([openaction |-> JObj([arg0 |-> JStr(<<Slash, Seg("r")>>)])]))
    @@ (DirO \o <<File("t", "json")>>) :>
        JsonFile(JObj([openaction |->
            JObj([command |-> JNum(1), arg0 |-> JStr(<<Slash, Seg("r")>>)])]))

\* the directories another process may remove while the launcher runs
Removable == {DirA, DirB}

\* main(): the launcher is started on the directory R, on one descriptor file
\* of it or of the directory below it, whose directory is then the base, or on
\* a name that ends in .json and is no file
CliChoices ==
    {R} \cup {R \o <<File(n, "json")>> : n \in {"a", "bad", "e", "m", "n", "p"}}
        \cup {DirA \o <<File("a", "json")>>, R \o <<File("missing", "json")>>}

\* ------------------------------------------------------------------ dispatch

PluginOutcomes ==
    {"load_error", "no_factory", "factory_raises", "returns_none", "show_raises", "ok"}

NoAction == [cmd |-> "none", ok |-> FALSE, target |-> <<>>]

\* a faulty variant: arg0 is resolved against the directory the launcher was
\* started on
ResolveArg_LoadTimeBase(base, arg0) ==
    IF isabs(arg0) THEN Segments(arg0) ELSE abspath(join(R, arg0))

\* arg0 if os.path.isabs(arg0) else os.path.abspath(os.path.join(base, arg0))
ResolveArg(base, arg0) ==
    IF isabs(arg0) THEN Segments(arg0) ELSE abspath(join(base, arg0))

\* a faulty variant: the empty string passes
ValidArg_AnyString(arg0) == arg0.t = "str"

\* isinstance(arg0, str) and arg0
ValidArg(arg0) == arg0.t = "str" /\ arg0.s # <<>>

\* what execute_openaction decides: the command it serves, the target it
\* resolved and whether the target passed the isdir / isfile test
execute_openaction(D, F, base, descriptor) ==
    LET open_action == Get(descriptor, "openaction")
        command == Get(open_action, "command")
        arg0 == Get(open_action, "arg0")
        target == ResolveArg(base, arg0.s)
    IN IF open_action.t # "obj" THEN NoAction
       ELSE IF ~ValidArg(arg0) THEN NoAction
       ELSE IF command = Str("path")
       THEN [cmd |-> "path", ok |-> isdir(D, target), target |-> target]
       ELSE IF command = Str("python")
       THEN [cmd |-> "python", ok |-> isfile(D, F, target), target |-> target]
       ELSE IF command = Str("shell")
       THEN [cmd |-> "shell", ok |-> isfile(D, F, target), target |-> target]
       ELSE NoAction

\* exec_module of a file that is no Python source fails
LoadOutcome(F, plugin_file, outcome) ==
    IF F[abspath(plugin_file)].kind = "py" THEN outcome ELSE "load_error"

\* the window is appended before window.show() is called
AppendsWindow(outcome) == outcome \in {"show_raises", "ok"}

\* child_windows after run_python_plugin; every exception is caught
run_python_plugin(windows, plugin_file, context, outcome) ==
    IF AppendsWindow(outcome)
    THEN Append(windows, [plugin |-> plugin_file, context |-> context,
                          shown |-> outcome = "ok", closed |-> FALSE])
    ELSE windows

\* subprocess.Popen starts the process or raises (no bash, no fork)
ShellOutcomes == {"started", "popen_raises"}

\* a faulty variant: the script stays in the launcher's session
StartNewSession_Off == FALSE

\* Popen(..., start_new_session=True)
StartNewSession == TRUE

\* a process Popen started: its command, whether it leads a session of its
\* own, and whether it still runs
Proc(cmd, own_session) == [cmd |-> cmd, own_session |-> own_session, running |-> TRUE]

\* what the plugin file, or Popen, may do when the descriptor has it run
OutcomesOf(descriptor) ==
    LET act == execute_openaction(dirs, files, base_path, descriptor)
    IN IF act.cmd = "python" /\ act.ok THEN PluginOutcomes
       ELSE IF act.cmd = "shell" /\ act.ok THEN ShellOutcomes
       ELSE {"none"}

\* what a call of record_history observed: the second and the suffix of the
\* stem it chose, the entry, what it wrote, and the history directory before
\* the call: nth, the number of .json names of this second already there,
\* fresh, no file of the chosen stem's .json name was there, kept_files, every
\* file that was there is there unchanged after the call, kept_json, every
\* .json file that was there is, failed, the step that met an I/O failure
\* ("mkdir", "sh", "json", "html" or "none"), order, the files the call opened
\* for writing, in the order of the opens
NoRec == [ts |-> 0, k |-> 0, title |-> JNull, icon |-> JNull, script |-> JNull,
          probed |-> FALSE,
          wrote_shell |-> FALSE, wrote_json |-> FALSE, wrote_html |-> FALSE,
          failed |-> "none", order |-> <<>>,
          nth |-> 0, fresh |-> FALSE, kept_files |-> TRUE, kept_json |-> TRUE]

\* the launcher processes started on the same root
Launchers == {1, 2}

\* a launcher that is not in record_history: pc is the statement a call is
\* at ("idle", "probe", "sh", "json", "html", "done"), ts and k the second and
\* the suffix of its stem
NoRecorder == [pc |-> "idle", ts |-> 0, k |-> 0, entry |-> <<>>, wrote_shell |-> FALSE]

\* what a handler's launch step observed: the process it started (pid, 0 when
\* none), the label and the process group it had for it, whether it found a
\* callable register_started_session on the host and called it, and whether
\* it called record_history
NoCtx == [base_path |-> <<>>, root_base_path |-> <<>>, descriptor |-> JNull,
          json_path |-> <<>>]

NoSess == [pid |-> 0, label |-> <<>>, pgid |-> 0, registered |-> FALSE, recorded |-> FALSE,
           win |-> 0, dont_record |-> FALSE, steps |-> <<>>]

\* the record of the last operation: the command served, the target and
\* whether it passed the existence test, the plugin's outcome, and whether the
\* operation left the navigation state (kept) and child_windows (kept_win)
\* as they were; ctx is the context handed to run_python_plugin
Observed(op, act, via, out, kept, kept_win) ==
    [op |-> op, cmd |-> act.cmd, ok |-> act.ok, tgt |-> act.target, via |-> via,
     out |-> out, kept |-> kept, kept_win |-> kept_win, rec |-> NoRec, sess |-> NoSess,
     ctx |-> NoCtx]

\* the navigation state is the same after the step as before
NavKept ==
    base_path' = base_path /\ icon_list' = icon_list /\ breadcrumbs' = breadcrumbs

\* execute_openaction on one descriptor; caught: the caller swallows an
\* exception (main), else it reaches the event loop and the process aborts
Dispatch(descriptor, json_path, outcome, via, caught) ==
    LET act == execute_openaction(dirs, files, base_path, descriptor)
        r == change_base_path(dirs, files, root_base_path, breadcrumbs, act.target)
        out == IF act.cmd = "python" /\ act.ok
               THEN LoadOutcome(files, act.target, outcome)
               ELSE IF act.cmd = "shell" /\ act.ok THEN outcome
               ELSE "none"
        context == [base_path |-> base_path, root_base_path |-> root_base_path,
                    descriptor |-> descriptor, json_path |-> json_path]
    IN /\ (act.cmd = "python" /\ act.ok /\ AppendsWindow(out))
            => Len(child_windows) < MaxWindows
       /\ (act.cmd = "shell" /\ act.ok /\ out = "started") => Len(launched) < MaxWindows
       /\ IF act.cmd = "path" /\ act.ok
          THEN /\ base_path' = r.base
               /\ icon_list' = r.items
               /\ selected' = 0
               /\ web_view' \in ViewsAfter(dirs, files, r, selected # 0, web_view)
               /\ breadcrumbs' = r.crumbs
               /\ alive' = (caught \/ ~r.raised)
          ELSE UNCHANGED <<base_path, icon_list, selected, web_view, breadcrumbs, alive>>
       /\ child_windows' =
            IF act.cmd = "python" /\ act.ok
            THEN run_python_plugin(child_windows, act.target, context, out)
            ELSE child_windows
       /\ launched' = IF act.cmd = "shell" /\ act.ok /\ out = "started"
                      THEN Append(launched, Proc(act.target, StartNewSession))
                      ELSE launched
       /\ last' = [Observed("dispatch", act, via, out, NavKept,
                            child_windows' = child_windows)
                      EXCEPT !.ctx = IF act.cmd = "python" /\ act.ok THEN context ELSE NoCtx]
       /\ UNCHANGED <<dirs, files, root_base_path, now, nrec, recorders>>

\* ------------------------------------------------------------------- actions

\* abs_cli.lower().endswith(".json") and os.path.isfile(abs_cli)
IsDescriptorFile(D, F, abs_cli) ==
    /\ abs_cli # <<>>
    /\ Lower(basename(abs_cli).ext) = "json"
    /\ isfile(D, F, abs_cli)

\* a faulty variant: the file itself is taken as the base
resolve_base_path_NoDirname(D, F, cli_base_path) == abspath(cli_base_path)

\* the base for a command-line argument: the directory of a descriptor file,
\* else the argument itself
resolve_base_path(D, F, cli_base_path) ==
    IF IsDescriptorFile(D, F, abspath(cli_base_path))
    THEN dirname(abspath(cli_base_path))
    ELSE abspath(cli_base_path)

\* main(): the descriptor file to execute at startup, <<>> for none
json_to_execute(D, F, cli_base_path) ==
    IF IsDescriptorFile(D, F, abspath(cli_base_path)) THEN abspath(cli_base_path) ELSE <<>>

\* the window main() constructs for one of the command-line arguments clis
InitWith(D, F, clis) ==
    \E cli \in clis :
        LET base == abspath(resolve_base_path(D, F, cli)) IN
        /\ dirs = D
        /\ files = F
        /\ base_path = base
        /\ root_base_path = base
        /\ icon_list = populate_objects(D, F, base).items
        /\ selected = 0
        /\ web_view = load_index_html(D, F, base)
        /\ breadcrumbs = update_breadcrumbs(base, base)
        /\ child_windows = <<>>
        /\ launched = <<>>
        /\ alive = ~populate_objects(D, F, base).raised
        /\ startup = [pending |-> json_to_execute(D, F, cli) # <<>>,
                      json |-> json_to_execute(D, F, cli)]
        /\ now = 0
        /\ nrec = 0
        /\ recorders = [p \in Launchers |-> NoRecorder]
        /\ last = Observed("init", NoAction, "none", "none", TRUE, TRUE)

\* the launcher started on a tree of hand-written descriptors; an exception
\* out of the constructor ends main()
Init == InitWith(InitDirs, InitFiles, CliChoices)

\* main(): the descriptor given on the command line is executed once, before
\* the event loop starts; an exception is swallowed
Startup(outcome) ==
    /\ alive /\ startup.pending
    /\ startup' = [pending |-> FALSE, json |-> <<>>]
    /\ Dispatch(load_object_descriptor(files, startup.json), startup.json,
                outcome, "startup", TRUE)

\* _on_item_double_clicked on the i-th item
DoubleClick(i, outcome) ==
    /\ alive /\ ~startup.pending
    /\ i \in 1..Len(icon_list)
    /\ Dispatch(icon_list[i].descriptor, icon_list[i].json_path, outcome, "click", FALSE)
    /\ UNCHANGED startup

\* the triggered signal of the j-th crumb: change_base_path(target_path)
Crumb(j) ==
    /\ alive /\ ~startup.pending
    /\ j \in 1..Len(breadcrumbs)
    /\ LET target_path == breadcrumbs[j][2]
           r == change_base_path(dirs, files, root_base_path, breadcrumbs, target_path)
       IN /\ base_path' = r.base
          /\ icon_list' = r.items
          /\ selected' = 0
          /\ web_view' \in ViewsAfter(dirs, files, r, selected # 0, web_view)
          /\ breadcrumbs' = r.crumbs
          /\ alive' = ~r.raised
          /\ last' = Observed("crumb",
                 [cmd |-> "crumb", ok |-> isdir(dirs, target_path), target |-> target_path],
                 "click", "none", NavKept, TRUE)
    /\ UNCHANGED <<dirs, files, root_base_path, child_windows, launched, startup, now, nrec, recorders>>

\* _on_selection_changed after a click on the i-th item
Select(i) ==
    /\ alive /\ ~startup.pending
    /\ i \in 1..Len(icon_list)
    /\ selected # i
    /\ LET r == load_details_for_descriptor(dirs, files, base_path, icon_list[i].descriptor)
       IN /\ selected' = i
          /\ web_view' = IF r.raised THEN web_view ELSE r.view
          /\ alive' = ~r.raised
          /\ last' = Observed("select",
                 [cmd |-> "select", ok |-> ~r.raised, target |-> icon_list[i].json_path],
                 "click", "none", TRUE, TRUE)
    /\ UNCHANGED <<dirs, files, base_path, root_base_path, icon_list, breadcrumbs,
                   child_windows, launched, startup, now, nrec, recorders>>

\* eventFilter: a click on the empty area clears the selection and shows the
\* index page
EmptyAreaClick ==
    /\ alive /\ ~startup.pending
    /\ selected' = 0
    /\ web_view' = load_index_html(dirs, files, base_path)
    /\ last' = Observed("deselect", NoAction, "click", "none", TRUE, TRUE)
    /\ UNCHANGED <<dirs, files, base_path, root_base_path, icon_list, breadcrumbs,
                   child_windows, launched, alive, startup, now, nrec, recorders>>

\* a process the launcher started comes to its end, whether or not the
\* launcher still runs
ProcExit(k) ==
    /\ k \in 1..Len(launched)
    /\ launched[k].running
    /\ launched' = [launched EXCEPT ![k].running = FALSE]
    /\ last' = Observed("procexit", NoAction, "none", "none", TRUE, TRUE)
    /\ UNCHANGED <<dirs, files, base_path, root_base_path, icon_list, selected, web_view,
                   breadcrumbs, child_windows, alive, startup, now, nrec, recorders>>

\* the user closes the launcher: app.exec_() returns and main() ends; with
\* hangup, the launcher's session ends with it and the processes that have no
\* session of their own are signalled
HostExit(hangup) ==
    /\ alive /\ ~startup.pending
    /\ alive' = FALSE
    /\ launched' = [k \in 1..Len(launched) |->
                       IF hangup /\ ~launched[k].own_session
                       THEN [launched[k] EXCEPT !.running = FALSE]
                       ELSE launched[k]]
    /\ last' = Observed("exit", NoAction, "none", "none", TRUE, TRUE)
    /\ UNCHANGED <<dirs, files, base_path, root_base_path, icon_list, selected, web_view,
                   breadcrumbs, child_windows, startup, now, nrec, recorders>>

\* another process removes a directory and all it holds
EnvRemoveDir(d) ==
    /\ alive
    /\ d \in dirs
    /\ dirs' = {p \in dirs : ~IsPrefix(d, p)}
    /\ files' = [p \in {q \in DOMAIN files : ~IsPrefix(d, q)} |-> files[p]]
    /\ last' = Observed("env", [cmd |-> "rmdir", ok |-> TRUE, target |-> d], "none", "none",
                       TRUE, TRUE)
    /\ UNCHANGED <<base_path, root_base_path, icon_list, selected, web_view, breadcrumbs,
                   child_windows, launched, alive, startup, now, nrec, recorders>>

Tick ==
    /\ alive
    /\ now < MaxClock
    /\ now' = now + 1
    /\ last' = Observed("tick", NoAction, "none", "none", TRUE, TRUE)
    /\ UNCHANGED <<dirs, files, base_path, root_base_path, icon_list, selected, web_view,
                   breadcrumbs, child_windows, launched, alive, startup, nrec, recorders>>

\* ------------------------------------------------------------ history recorder

Space == Seg(" ")

Newline == Seg("\n")

RECURSIVE lstrip(_)
lstrip(s) ==
    IF s # <<>> /\ Head(s) \in {Space, Newline} THEN lstrip(Tail(s)) ELSE s

\* str.strip() is empty
IsBlank(s) == lstrip(s) = <<>>

\* replay_script if replay_script.endswith("\n") else replay_script + "\n"
ScriptText(s) == IF s # <<>> /\ s[Len(s)] = Newline THEN s ELSE Append(s, Newline)

ShFile(text) == [kind |-> "sh", val |-> JStr(text)]

\* a file opened for writing whose write failed
PartialFile == [kind |-> "partial", val |-> JNull]

HtmlFile == OtherFile("html")

\* the entries handlers pass to record_history
Entries ==
    { [title |-> Str("T"), icon |-> Str("I"), replay_shell_script |-> Str("run1")],
      [title |-> JStr(<<Seg("T"), Quote>>), icon |-> JStr(<<Backslash, Seg("I")>>),
       replay_shell_script |-> JStr(<<Seg("run2"), Newline>>)],
      [title |-> Str("U"), icon |-> Str("I"), replay_shell_script |-> JNull],
      [title |-> JStr(<<>>), icon |-> Str("I"), replay_shell_script |-> JStr(<<Space, Newline>>)],
      [title |-> JNull, icon |-> Str("I"), replay_shell_script |-> Str("run1")],
      [title |-> Str("T"), icon |-> JNum(1), replay_shell_script |-> JNull] }

\* at most one I/O operation of a call fails: makedirs, or the open or the
\* write of one of the three files
Faults ==
    {"none", "mkdir", "sh_open", "sh_write", "json_open", "json_write",
     "html_open", "html_write"}

HistPath(root, ts, k, e) == root \o <<Seg("History"), Hist(ts, k, e)>>

\* a faulty variant: the name is taken without looking for a collision
Probe_NoCheck(D, F, root, ts, k) == k

RECURSIVE Probe(_, _, _, _, _)
\* the loop "while os.path.exists(target_path)": the first suffix, from none
\* (0) upwards, whose .json name does not exist
Probe(D, F, root, ts, k) ==
    IF exists(D, F, HistPath(root, ts, k, "json"))
    THEN Probe(D, F, root, ts, k + 1)
    ELSE k

\* open(path, "w") and one write: a failed open leaves the filesystem as it
\* was, a failed write leaves a created or truncated file
WriteFile(F, path, content, fault, open_fault, write_fault) ==
    IF fault = open_fault THEN F
    ELSE (path :> (IF fault = write_fault THEN PartialFile ELSE content)) @@ F

Prefixes(p) == {SubSeq(p, 1, i) : i \in 0..Len(p)}

\* a faulty variant: the open action names the detail page
HistoryPayload_WrongArg(title, icon, html_path, sh_path, with_action) ==
    IF with_action
    THEN JObj([title |-> title, icon |-> icon,
               details |-> JStr(<<basename(html_path)>>),
               openaction |-> JObj([command |-> Str("shell"),
                                    arg0 |-> JStr(<<basename(html_path)>>)])])
    ELSE JObj([title |-> title, icon |-> icon,
               details |-> JStr(<<basename(html_path)>>)])

\* a faulty variant: the open action is written whether or not the script was
HistoryPayload_AlwaysAction(title, icon, html_path, sh_path, with_action) ==
    JObj([title |-> title, icon |-> icon,
          details |-> JStr(<<basename(html_path)>>),
          openaction |-> JObj([command |-> Str("shell"),
                               arg0 |-> JStr(<<basename(sh_path)>>)])])

\* the dictionary record_history dumps; with_action: the script was written
HistoryPayload(title, icon, html_path, sh_path, with_action) ==
    IF with_action
    THEN JObj([title |-> title, icon |-> icon,
               details |-> JStr(<<basename(html_path)>>),
               openaction |-> JObj([command |-> Str("shell"),
                                    arg0 |-> JStr(<<basename(sh_path)>>)])])
    ELSE JObj([title |-> title, icon |-> icon,
               details |-> JStr(<<basename(html_path)>>)])

\* the suffixes k whose "<ts>[-k].json" name exists in the history directory
UsedSuffixes(D, F, root, ts) ==
    {k \in 0..MaxRecords : exists(D, F, HistPath(root, ts, k, "json"))}

\* a faulty variant: only the title is tested
ValidEntry_TitleOnly(title, icon) == title.t = "str"

\* isinstance(title, str) and isinstance(icon, str); an absent key is None
ValidEntry(title, icon) == title.t = "str" /\ icon.t = "str"

\* a faulty variant: a failed write of the descriptor is ignored like a failed
\* write of the script
ReachesHtml_Always(fault) == TRUE

\* a faulty variant: the detail page is never reached
ReachesHtml_Never(fault) == FALSE

\* the detail page is written when the with-block of the descriptor was left
\* without an exception
ReachesHtml(fault) == fault \notin {"json_open", "json_write"}

\* [dirs, files, rec]: the filesystem after one call of record_history in the
\* second ts, and what the call observed
RecordResult(D, F, root, ts, entry, fault) ==
    LET title == entry.title
        icon == entry.icon
        history_dir == root \o <<Seg("History")>>
        valid == ValidEntry(title, icon)
        made == valid /\ fault # "mkdir" /\ history_dir \notin DOMAIN F
        D1 == IF made THEN D \cup Prefixes(history_dir) ELSE D
        k == Probe(D1, F, root, ts, 0)
        target_path == HistPath(root, ts, k, "json")
        html_path == HistPath(root, ts, k, "html")
        sh_path == HistPath(root, ts, k, "sh")
        replay_script == entry.replay_shell_script
        has_script == replay_script.t = "str" /\ ~IsBlank(replay_script.s)
        F1 == IF has_script
              THEN WriteFile(F, sh_path, ShFile(ScriptText(replay_script.s)),
                             fault, "sh_open", "sh_write")
              ELSE F
        wrote_shell == has_script /\ fault \notin {"sh_open", "sh_write"}
        payload == HistoryPayload(title, icon, html_path, sh_path,
                                  wrote_shell /\ isfile(D1, F1, sh_path))
        F2 == WriteFile(F1, target_path, JsonFile(payload), fault, "json_open", "json_write")
        wrote_json == fault \notin {"json_open", "json_write"}
        F3 == IF ReachesHtml(fault)
              THEN WriteFile(F2, html_path, HtmlFile, fault, "html_open", "html_write")
              ELSE F2
        F4 == IF made THEN F3 ELSE F
        failed == IF ~valid THEN "none"
                  ELSE IF fault = "mkdir" THEN "mkdir"
                  ELSE IF ~made THEN "none"
                  ELSE IF has_script /\ fault \in {"sh_open", "sh_write"} THEN "sh"
                  ELSE IF fault \in {"json_open", "json_write"} THEN "json"
                  ELSE IF fault \in {"html_open", "html_write"} THEN "html"
                  ELSE "none"
        order == (IF has_script /\ fault # "sh_open" THEN <<"sh">> ELSE <<>>)
                 \o (IF fault # "json_open" THEN <<"json">> ELSE <<>>)
                 \o (IF ReachesHtml(fault) /\ fault # "html_open" THEN <<"html">> ELSE <<>>)
    IN [dirs |-> D1,
        files |-> F4,
        rec |-> [ts |-> ts, k |-> IF made THEN k ELSE 0,
                 title |-> title, icon |-> icon, script |-> replay_script,
                 probed |-> made,
                 wrote_shell |-> made /\ wrote_shell,
                 wrote_json |-> made /\ wrote_json,
                 wrote_html |-> made /\ ReachesHtml(fault)
                                     /\ fault \notin {"html_open", "html_write"},
                 failed |-> failed,
                 order |-> IF made THEN order ELSE <<>>,
                 nth |-> Cardinality(UsedSuffixes(D, F, root, ts)),
                 fresh |-> made /\ ~exists(D, F, target_path),
                 kept_files |-> \A q \in DOMAIN F : q \in DOMAIN F4 /\ F4[q] = F[q],
                 kept_json |-> \A q \in DOMAIN F :
                                  basename(q).ext = "json" =>
                                      (q \in DOMAIN F4 /\ F4[q] = F[q])]]

\* a faulty variant: the history is kept under the directory shown
RecordRoot_CurrentBase == base_path

\* os.path.join(self.root_base_path, "History"): the directory under which
\* record_history keeps the history
RecordRoot == root_base_path

record_history(entry, fault) ==
    LET r == RecordResult(dirs, files, RecordRoot, now, entry, fault)
    IN /\ alive /\ ~startup.pending
       /\ nrec < MaxRecords
       /\ nrec' = nrec + 1
       /\ dirs' = r.dirs
       /\ files' = r.files
       /\ last' = [Observed("record", NoAction, "none", "none", TRUE, TRUE) EXCEPT !.rec = r.rec]
       /\ UNCHANGED <<base_path, root_base_path, icon_list, selected, web_view, breadcrumbs,
                      child_windows, launched, alive, startup, now, recorders>>

\* record_history statement by statement, as it runs in each of the launcher
\* processes that share the root: the entry is tested, the history directory
\* made and the second read
RecStart(p, entry) ==
    /\ recorders[p].pc = "idle"
    /\ ValidEntry(entry.title, entry.icon)
    /\ dirs' = dirs \cup Prefixes(RecordRoot \o <<Seg("History")>>)
    /\ recorders' = [recorders EXCEPT ![p] =
                        [pc |-> "probe", ts |-> now, k |-> 0, entry |-> entry,
                         wrote_shell |-> FALSE]]
    /\ UNCHANGED <<files, base_path, root_base_path, icon_list, selected, web_view,
                   breadcrumbs, child_windows, launched, alive, startup, now, nrec, last>>

\* one test of "while os.path.exists(target_path)": the next suffix, or the
\* loop is left with the stem
RecProbe(p) ==
    /\ recorders[p].pc = "probe"
    /\ recorders' = [recorders EXCEPT ![p] =
          IF exists(dirs, files, HistPath(RecordRoot, recorders[p].ts, recorders[p].k, "json"))
          THEN [@ EXCEPT !.k = @ + 1]
          ELSE [@ EXCEPT !.pc = "sh"]]
    /\ UNCHANGED <<dirs, files, base_path, root_base_path, icon_list, selected, web_view,
                   breadcrumbs, child_windows, launched, alive, startup, now, nrec, last>>

\* the replay script is written when the entry has one
RecWriteScript(p) ==
    LET rec == recorders[p]
        replay_script == rec.entry.replay_shell_script
        has_script == replay_script.t = "str" /\ ~IsBlank(replay_script.s)
        sh_path == HistPath(RecordRoot, rec.ts, rec.k, "sh")
    IN /\ rec.pc = "sh"
       /\ files' = IF has_script
                   THEN WriteFile(files, sh_path, ShFile(ScriptText(replay_script.s)),
                                  "none", "sh_open", "sh_write")
                   ELSE files
       /\ recorders' = [recorders EXCEPT ![p] = [@ EXCEPT !.pc = "json",
                                                           !.wrote_shell = has_script]]
       /\ UNCHANGED <<dirs, base_path, root_base_path, icon_list, selected, web_view,
                      breadcrumbs, child_windows, launched, alive, startup, now, nrec, last>>

\* the descriptor is dumped
RecWriteJson(p) ==
    LET rec == recorders[p]
        target_path == HistPath(RecordRoot, rec.ts, rec.k, "json")
        html_path == HistPath(RecordRoot, rec.ts, rec.k, "html")
        sh_path == HistPath(RecordRoot, rec.ts, rec.k, "sh")
        payload == HistoryPayload(rec.entry.title, rec.entry.icon, html_path, sh_path,
                                  rec.wrote_shell /\ isfile(dirs, files, sh_path))
    IN /\ rec.pc = "json"
       /\ files' = WriteFile(files, target_path, JsonFile(payload),
                             "none", "json_open", "json_write")
       /\ recorders' = [recorders EXCEPT ![p].pc = "html"]
       /\ UNCHANGED <<dirs, base_path, root_base_path, icon_list, selected, web_view,
                      breadcrumbs, child_windows, launched, alive, startup, now, nrec, last>>

\* the detail page is written and the call returns
RecWriteHtml(p) ==
    LET rec == recorders[p]
        html_path == HistPath(RecordRoot, rec.ts, rec.k, "html")
    IN /\ rec.pc = "html"
       /\ files' = WriteFile(files, html_path, HtmlFile, "none", "html_open", "html_write")
       /\ recorders' = [recorders EXCEPT ![p].pc = "done"]
       /\ UNCHANGED <<dirs, base_path, root_base_path, icon_list, selected, web_view,
                      breadcrumbs, child_windows, launched, alive, startup, now, nrec, last>>

\* ------------------------------------------------------------ the Jupyter handler

\* the methods class LauncherWindow defines: what getattr(parent, name) finds
\* callable on the host reference a handler is given
LauncherWindowMethods ==
    {"populate_objects", "load_index_html", "load_details_for_descriptor",
     "_on_selection_changed", "_on_item_double_clicked", "execute_openaction",
     "eventFilter", "change_base_path", "update_breadcrumbs", "record_history",
     "run_python_plugin"}

\* callable(getattr(parent, name, None))
HostCallable(name) == name \in LauncherWindowMethods

Labels == {"Notebook", "Lab"}

\* f"Jupyter {label}: {leaf}"
SessionLabel(label) == <<Seg("Jupyter "), Seg(label), Seg(": "), Seg("leaf")>>

\* the entry on_launch hands to record_history
history_entry(label) ==
    [title |-> JStr(SessionLabel(label)),
     icon |-> JStr(<<DotDot, Slash, Seg("Apps"), Slash, Seg("Jupyter"), Slash,
                     Seg("Resources"), Slash, File("Jupyter", "png")>>),
     replay_shell_script |->
         JStr(<<Seg("#!/usr/bin/env bash"), Newline, Seg("set -e"), Newline,
                Seg("exec jupyter"), Newline>>)]

\* the pid of the n-th process the host's handlers started
Pid(n) == 100 + n

\* a faulty variant: the box "Don't record history" is not looked at
RecordsLaunch_IgnoresBox(popen_ok, dont_record) ==
    popen_ok /\ HostCallable("record_history")

\* the launch step calls record_history: Popen returned, the box is not
\* ticked and the host has the method
RecordsLaunch(popen_ok, dont_record) ==
    popen_ok /\ ~dont_record /\ HostCallable("record_history")

\* a faulty variant: the window is closed at the end of the try block
LaunchSteps_CloseInTry(popen_ok, registers, dont_record, records) ==
    <<"popen">>
    \o (IF popen_ok
        THEN <<"getpgid", "getattr_register">>
             \o (IF registers THEN <<"register">> ELSE <<>>)
             \o (IF ~dont_record THEN <<"getattr_record">> ELSE <<>>)
             \o (IF records THEN <<"record">> ELSE <<>>)
             \o <<"close">>
        ELSE <<>>)

\* the calls of the launch step in the order of the code: the two inner try
\* blocks follow Popen inside the outer one, whose finally closes the window
LaunchSteps(popen_ok, registers, dont_record, records) ==
    <<"popen">>
    \o (IF popen_ok
        THEN <<"getpgid", "getattr_register">>
             \o (IF registers THEN <<"register">> ELSE <<>>)
             \o (IF ~dont_record THEN <<"getattr_record">> ELSE <<>>)
             \o (IF records THEN <<"record">> ELSE <<>>)
        ELSE <<>>)
    \o <<"close">>

\* the Launch button of the i-th handler window: Popen, then the session is
\* registered when the host has a callable register_started_session, then the
\* launch is recorded unless the box is ticked, and the window is closed in
\* every case; an exception of Popen leaves the slot after the close; an
\* exception of os.getpgid (the process is gone already) is caught and the
\* group is None
on_launch(i, label, dont_record, popen_ok, getpgid_ok, fault) ==
    LET entry == history_entry(label)
        records == RecordsLaunch(popen_ok, dont_record)
        r == RecordResult(dirs, files, RecordRoot, now, entry, fault)
        pid == Pid(Len(launched) + 1)
        registers == popen_ok /\ HostCallable("register_started_session")
        steps == LaunchSteps(popen_ok, registers, dont_record, records)
    IN /\ alive /\ ~startup.pending
       /\ i \in 1..Len(child_windows)
       /\ child_windows[i].shown /\ ~child_windows[i].closed
       /\ ~popen_ok => getpgid_ok
       /\ records => nrec < MaxRecords
       /\ ~records => fault = "none"
       /\ launched' = IF popen_ok
                      THEN Append(launched, Proc(<<Seg("jupyter"), Seg(label)>>, TRUE))
                      ELSE launched
       /\ dirs' = IF records THEN r.dirs ELSE dirs
       /\ files' = IF records THEN r.files ELSE files
       /\ nrec' = IF records THEN nrec + 1 ELSE nrec
       /\ child_windows' = [child_windows EXCEPT ![i].closed =
                                \E n \in 1..Len(steps) : steps[n] = "close"]
       /\ alive' = popen_ok
       /\ last' = [Observed("launch", NoAction, "click", "none", TRUE, FALSE) EXCEPT
             !.rec = IF records THEN r.rec ELSE NoRec,
             !.sess = [pid |-> IF popen_ok THEN pid ELSE 0,
                       label |-> SessionLabel(label),
                       pgid |-> IF popen_ok /\ getpgid_ok THEN pid ELSE 0,
                       registered |-> registers,
                       recorded |-> records,
                       win |-> i, dont_record |-> dont_record, steps |-> steps]]
       /\ UNCHANGED <<base_path, root_base_path, icon_list, selected, web_view, breadcrumbs,
                      startup, now, recorders>>

\* the Cancel button of the i-th handler window
on_cancel(i) ==
    /\ alive /\ ~startup.pending
    /\ i \in 1..Len(child_windows)
    /\ child_windows[i].shown /\ ~child_windows[i].closed
    /\ child_windows' = [child_windows EXCEPT ![i].closed = TRUE]
    /\ last' = Observed("cancel", NoAction, "click", "none", TRUE, FALSE)
    /\ UNCHANGED <<dirs, files, base_path, root_base_path, icon_list, selected, web_view,
                   breadcrumbs, launched, alive, startup, now, nrec, recorders>>

\* -------------------------------------------------------------- specifications

Next ==
    \/ \E outcome \in OutcomesOf(load_object_descriptor(files, startup.json)) :
          Startup(outcome)
    \/ \E i \in 1..Len(icon_list) :
          \E outcome \in OutcomesOf(icon_list[i].descriptor) : DoubleClick(i, outcome)
    \/ \E j \in 1..Len(breadcrumbs) : Crumb(j)
    \/ \E d \in Removable : EnvRemoveDir(d)

Spec == Init /\ [][Next]_vars

\* the launcher started on a tree that holds one descriptor, which leads to
\* the history directory
RecDirs == {<<>>, R}

RecFiles ==
    (R \o <<File("h", "json")>>) :> JsonFile(OpenAction("path", <<Seg("History")>>))

InitRec == InitWith(RecDirs, RecFiles, {R})

NextRec ==
    \/ Tick
    \/ \E entry \in Entries, fault \in Faults : record_history(entry, fault)

SpecRec == InitRec /\ [][NextRec]_vars

\* the launcher started on a tree that holds the Jupyter handler and its
\* descriptor
JupyterFiles ==
    (R \o <<File("j", "json")>>) :> JsonFile(OpenAction("python", <<File("OnRed", "py")>>))
    @@ (R \o <<File("OnRed", "py")>>) :> OtherFile("py")

InitJupyter == InitWith(RecDirs, JupyterFiles, {R})

NextJupyter ==
    \/ Tick
    \/ \E i \in 1..Len(icon_list) :
          \E outcome \in OutcomesOf(icon_list[i].descriptor) : DoubleClick(i, outcome)
    \/ \E i \in 1..Len(child_windows), label \in Labels,
          dont_record, popen_ok, getpgid_ok \in BOOLEAN, fault \in Faults :
              on_launch(i, label, dont_record, popen_ok, getpgid_ok, fault)
    \/ \E i \in 1..Len(child_windows) : on_cancel(i)

SpecJupyter == InitJupyter /\ [][NextJupyter]_vars

\* the launcher started on a tree with shell descriptors in the root and
\* below it, of a script that exists and of one that does not
ShellDirs == {<<>>, R, DirA, DirB}

ShellFiles ==
    (R \o <<File("a", "json")>>) :> JsonFile(OpenAction("path", <<Seg("a")>>))
    @@ (R \o <<File("d", "json")>>) :> JsonFile(OpenAction("path", <<Seg("b")>>))
    @@ (R \o <<File("n", "json")>>) :> JsonFile(OpenAction("shell", <<File("missing", "sh")>>))
    @@ (R \o <<File("s", "json")>>) :> JsonFile(OpenAction("shell", <<File("run", "sh")>>))
    @@ (R \o <<File("run", "sh")>>) :> OtherFile("sh")
    @@ (DirA \o <<File("n", "json")>>) :> JsonFile(OpenAction("shell", <<File("run", "sh")>>))
    @@ (DirA \o <<File("s", "json")>>) :>
        JsonFile(OpenAction("shell", <<DotDot, Slash, File("run", "sh")>>))
    @@ (DirB \o <<File("a", "json")>>) :>
        JsonFile(OpenAction("path", <<DotDot, Slash, Seg("a")>>))
    @@ (DirB \o <<File("s", "json")>>) :> JsonFile(OpenAction("shell", <<File("run", "sh")>>))
    @@ (DirB \o <<File("run", "sh")>>) :> OtherFile("sh")

InitShell ==
    InitWith(ShellDirs, ShellFiles,
             {R, R \o <<File("n", "json")>>, R \o <<File("s", "json")>>,
              DirA \o <<File("s", "json")>>})

\* the launcher, the processes it started and the user who closes it
NextShell ==
    \/ \E outcome \in OutcomesOf(load_object_descriptor(files, startup.json)) :
          Startup(outcome)
    \/ \E i \in 1..Len(icon_list) :
          \E outcome \in OutcomesOf(icon_list[i].descriptor) : DoubleClick(i, outcome)
    \/ \E j \in 1..Len(breadcrumbs) : Crumb(j)
    \/ \E i \in 1..Len(icon_list) : Select(i)
    \/ \E k \in 1..Len(launched) : ProcExit(k)
    \/ \E hangup \in BOOLEAN : HostExit(hangup)

SpecShell == InitShell /\ [][NextShell]_vars

\* the launcher started on a tree whose root leads to a directory below it
\* and to the history directory; the directory below holds the descriptor of
\* the Jupyter handler, a shell descriptor and one of an unknown command
FrameDirs == {<<>>, R, DirA}

FrameFiles ==
    (R \o <<File("a", "json")>>) :> JsonFile(OpenAction("path", <<Seg("a")>>))
    @@ (R \o <<File("h", "json")>>) :> JsonFile(OpenAction("path", <<Seg("History")>>))
    @@ (R \o <<File("OnRed", "py")>>) :> OtherFile("py")
    @@ (R \o <<File("run", "sh")>>) :> OtherFile("sh")
    @@ (DirA \o <<File("j", "json")>>) :>
        JsonFile(OpenAction("python", <<DotDot, Slash, File("OnRed", "py")>>))
    @@ (DirA \o <<File("n", "json")>>) :> JsonFile(OpenAction("url", <<Seg("a")>>))
    @@ (DirA \o <<File("s", "json")>>) :>
        JsonFile(OpenAction("shell", <<DotDot, Slash, File("run", "sh")>>))

InitFrame == InitWith(FrameDirs, FrameFiles, {R})

\* the entries of the calls of record_history in this tree
FrameEntries ==
    { [title |-> Str("T"), icon |-> Str("I"), replay_shell_script |-> Str("run1")] }

\* the handler file is the Jupyter handler: it loads and returns its window
FrameOutcomes(descriptor) == OutcomesOf(descriptor) \ (PluginOutcomes \ {"ok"})

NextFrame ==
    \/ \E i \in 1..Len(icon_list) :
          \E outcome \in FrameOutcomes(icon_list[i].descriptor) : DoubleClick(i, outcome)
    \/ \E j \in 1..Len(breadcrumbs) : Crumb(j)
    \/ \E i \in 1..Len(icon_list) : Select(i)
    \/ EmptyAreaClick
    \/ \E entry \in FrameEntries : record_history(entry, "none")
    \/ \E i \in 1..Len(child_windows), dont_record \in BOOLEAN :
          on_launch(i, "Lab", dont_record, TRUE, TRUE, "none")

SpecFrame == InitFrame /\ [][NextFrame]_vars

\* the launcher started on a tree whose root leads to the history directory
\* and to a directory with a descriptor whose icon is a number, or started on
\* one of the two descriptors that lead there
HistDirs == {<<>>, R, DirBad}

HistFiles ==
    (R \o <<File("bad", "json")>>) :> JsonFile(OpenAction("path", <<Seg("bad")>>))
    @@ (R \o <<File("h", "json")>>) :> JsonFile(OpenAction("path", <<Seg("History")>>))
    @@ (DirBad \o <<File("m", "json")>>) :>
        JsonFile(JObj([title |-> Str("M"), icon |-> JNum(5)]))
    @@ (DirBad \o <<File("n", "json")>>) :> JsonFile(JObj([title |-> Str("N")]))

InitHist ==
    InitWith(HistDirs, HistFiles,
             {R, R \o <<File("bad", "json")>>, R \o <<File("h", "json")>>})

\* the failures of the calls of record_history in this tree
HistFaults == {"none", "json_write"}

NextHist ==
    \/ \E outcome \in OutcomesOf(load_object_descriptor(files, startup.json)) :
          Startup(outcome)
    \/ \E i \in 1..Len(icon_list) :
          \E outcome \in OutcomesOf(icon_list[i].descriptor) : DoubleClick(i, outcome)
    \/ \E j \in 1..Len(breadcrumbs) : Crumb(j)
    \/ Tick
    \/ \E entry \in FrameEntries, fault \in HistFaults : record_history(entry, fault)

SpecHist == InitHist /\ [][NextHist]_vars

\* the entry each of the launcher processes records
RaceEntry(p) ==
    IF p = 1
    THEN [title |-> Str("T"), icon |-> Str("I"), replay_shell_script |-> Str("run1")]
    ELSE [title |-> Str("U"), icon |-> Str("I"), replay_shell_script |-> Str("run2")]

\* launcher processes started on the same root record one entry each, their
\* statements interleaved in any order, while the clock runs
NextRace ==
    \/ Tick
    \/ \E p \in Launchers : RecStart(p, RaceEntry(p))
    \/ \E p \in Launchers : RecProbe(p)
    \/ \E p \in Launchers : RecWriteScript(p)
    \/ \E p \in Launchers : RecWriteJson(p)
    \/ \E p \in Launchers : RecWriteHtml(p)

SpecRace == InitRec /\ [][NextRace]_vars

\* the values a field of a hand-written descriptor may have: a string (the
\* name of an existing file, the empty string), a number, a list, an object,
\* null
Values ==
    {JStr(<<File("i", "png")>>), JStr(<<>>), JNum(5), JNum(0), JList(1), JList(0),
     JObj([k |-> JNum(1)]), JObj(<<>>), JNull}

TitleValues == {Str("T"), JStr(<<>>), JNum(5), JList(1), JObj([k |-> JNum(1)]), JNull}

OpenActionValues ==
    {Str("path"), JNum(5), JList(1), JObj(<<>>), JNull,
     Get(OpenAction("path", <<Seg("sub")>>), "openaction")}

DirSub == R \o <<Seg("sub")>>

DescDirs == {<<>>, R, DirSub}

\* a directory with one descriptor of the given content, a plain descriptor
\* beside it and the file the string values name
DescFiles(descriptor) ==
    (R \o <<File("d", "json")>>) :> JsonFile(descriptor)
    @@ (R \o <<File("n", "json")>>) :> JsonFile(JObj([title |-> Str("N")]))
    @@ (R \o <<File("i", "png")>>) :> OtherFile("png")

\* the launcher started on a directory that holds a descriptor with any
\* values in its four fields
InitDesc ==
    \E t \in TitleValues, i \in Values, d \in Values, o \in OpenActionValues :
        InitWith(DescDirs,
                 DescFiles(JObj([title |-> t, icon |-> i, details |-> d, openaction |-> o])),
                 {R})

NextDesc ==
    \/ \E i \in 1..Len(icon_list) : Select(i)
    \/ EmptyAreaClick
    \/ \E i \in 1..Len(icon_list) :
          \E outcome \in OutcomesOf(icon_list[i].descriptor) : DoubleClick(i, outcome)
    \/ \E j \in 1..Len(breadcrumbs) : Crumb(j)

SpecDesc == InitDesc /\ [][NextDesc]_vars

\* -------------------------------------------------------------------- claims

ItemPaths(items) == [i \in 1..Len(items) |-> items[i].json_path]

\* the descriptor files populate_objects lists when its loop runs to the end
CompletedScan(D, F, base) ==
    SelectSeq(find_object_files(D, F, base),
              LAMBDA p : ~SkipDescriptor(load_object_descriptor(F, p)))

\* C1: while the launcher runs, a path action whose target, resolved against the current base, is an
\* existing directory makes that directory the current base and rebuilds the
\* item list from a scan of it; a path action whose target does not exist or
\* is no directory leaves the base, the item list and the trail as they were.
C1_PathDispatch ==
    (alive /\ last.op = "dispatch" /\ last.cmd = "path") =>
        IF last.ok
        THEN /\ base_path = Walk(dirs, <<>>, last.tgt).p
             /\ ItemPaths(icon_list) = CompletedScan(dirs, files, base_path)
        ELSE last.kept

\* C2: change_base_path on a target that is no existing directory at the
\* moment of the call changes neither the base, nor the item list, nor the
\* trail, whether a path action or a crumb triggers it.
C2_InvalidTargetIsNoOp ==
    (/\ alive
     /\ \/ last.op = "crumb"
        \/ last.op = "dispatch" /\ last.cmd = "path"
     /\ ~last.ok)
    => last.kept

\* C3: while the launcher runs, the first crumb is ("Home", root); at the root
\* the trail is that crumb alone; activating Home leads to the root with the
\* single-crumb trail.
C3_HomeCrumb ==
    alive =>
        /\ Len(breadcrumbs) >= 1
        /\ breadcrumbs[1] = <<Home, root_base_path>>
        /\ base_path = root_base_path => Len(breadcrumbs) = 1
        /\ (last.op = "crumb" /\ last.tgt = root_base_path) =>
              /\ base_path = root_base_path
              /\ breadcrumbs = << <<Home, root_base_path>> >>

\* Home was activated from a directory below the root
C3_Witness ==
    /\ alive
    /\ last.op = "crumb" /\ last.tgt = root_base_path /\ ~last.kept
    /\ base_path = root_base_path
    /\ breadcrumbs = << <<Home, root_base_path>> >>

\* the trail of root/s1/.../sn: Home, then one crumb per segment
ExpectedTrail(base, root) ==
    << <<Home, root>> >> \o
    [i \in 1..(Len(base) - Len(root)) |->
        <<base[Len(root) + i], SubSeq(base, 1, Len(root) + i)>>]

\* C4: while the launcher runs, the trail is the function of (base, root) that lists Home and then one
\* crumb per segment of the relative path, each crumb's path extending the
\* one before it by that segment, whatever the route to the current base.
C4_TrailIsFunction ==
    alive =>
    /\ \A i \in 2..Len(breadcrumbs) :
          breadcrumbs[i][2] = Append(breadcrumbs[i - 1][2], breadcrumbs[i][1])
    /\ abspath(breadcrumbs[Len(breadcrumbs)][2]) = base_path
    /\ IsPrefix(root_base_path, base_path) =>
          breadcrumbs = ExpectedTrail(base_path, root_base_path)

\* the descriptor files of a directory whose content is a JSON object
ObjectFiles(D, F, d) ==
    {p \in DOMAIN F : /\ d \in D
                      /\ dirname(p) = d
                      /\ Lower(basename(p).ext) = "json"
                      /\ F[p].kind = "json"
                      /\ F[p].val.t = "obj"}

NoSuchDir == <<Seg("nowhere")>>

\* C5: the scan of a directory lists exactly the descriptor files whose
\* content is a JSON object, the empty object included, in the order of their
\* file names, and nothing for a directory that does not exist.
C5_ScanListsEveryObject ==
    \A d \in dirs \cup {NoSuchDir} :
        LET r == populate_objects(dirs, files, d)
            listed == ItemPaths(r.items)
        IN /\ ~r.raised
           /\ {listed[i] : i \in 1..Len(listed)} = ObjectFiles(dirs, files, d)
           /\ Len(listed) = Cardinality(ObjectFiles(dirs, files, d))
           /\ \A i, j \in 1..Len(listed) :
                 i < j => NameLess(basename(listed[i]), basename(listed[j]))

FailedOutcomes == {"load_error", "no_factory", "factory_raises", "show_raises"}

\* C10: a handler whose load or invocation fails leaves child_windows as it
\* was, and the launcher keeps running.
C10_FailedHandlerKeepsWindows ==
    (last.op = "dispatch" /\ last.cmd = "python" /\ last.ok /\ last.out \in FailedOutcomes)
    => (last.kept_win /\ alive)

RecJson == HistPath(root_base_path, last.rec.ts, last.rec.k, "json")

RecSh == HistPath(root_base_path, last.rec.ts, last.rec.k, "sh")

\* C6: a call of record_history that reaches the probe takes the smallest
\* suffix whose .json name is unused (none, then -1, -2, ...): the k-th
\* collision of one second gets suffix k, the name was free, every smaller
\* suffix is in use, no descriptor already there is changed, and the
\* descriptor written loads.
C6_CollisionProbe ==
    (last.op = "record" /\ last.rec.probed) =>
        /\ last.rec.k = last.rec.nth
        /\ last.rec.fresh
        /\ \A j \in 0..(last.rec.k - 1) :
              exists(dirs, files, HistPath(root_base_path, last.rec.ts, j, "json"))
        /\ \A q \in DOMAIN files :
              (q # RecJson /\ basename(q).ext = "json" /\ files[q].kind = "json")
              => load_object_descriptor(files, q).t = "obj"
        /\ last.rec.kept_json
        /\ last.rec.wrote_json => load_object_descriptor(files, RecJson).t = "obj"

\* the second record of one second wrote "<ts>-1.json" beside "<ts>.json"
C6_Witness ==
    /\ last.op = "record" /\ last.rec.wrote_json /\ last.rec.k = 1
    /\ load_object_descriptor(files, RecJson).t = "obj"
    /\ load_object_descriptor(files,
           HistPath(root_base_path, last.rec.ts, 0, "json")).t = "obj"

\* C7: record_history changes no file that was in the history directory
\* before the call, whatever its extension.
C7_NoFileOverwritten ==
    last.op = "record" => last.rec.kept_files

\* the item of a scan that shows one descriptor file
ItemsOf(items, json_path) ==
    {i \in 1..Len(items) : items[i].json_path = json_path}

\* C8: the descriptor written by record_history, found again by a scan of the
\* history directory, has the entry's title and icon; its open action, when
\* it has one, resolved against the history directory, is the script file
\* this call wrote.
C8_RoundTrip ==
    (last.op = "record" /\ last.rec.wrote_json) =>
        LET history_dir == dirname(RecJson)
            scan == populate_objects(dirs, files, history_dir)
        IN /\ ~scan.raised
           /\ ItemsOf(scan.items, RecJson) # {}
           /\ \A i \in ItemsOf(scan.items, RecJson) :
                LET d == scan.items[i].descriptor
                    act == execute_openaction(dirs, files, history_dir, d)
                IN /\ Get(d, "title") = last.rec.title
                   /\ Get(d, "icon") = last.rec.icon
                   /\ "openaction" \in DOMAIN d.f =>
                         /\ act.cmd = "shell" /\ act.ok
                         /\ act.target = RecSh
                         /\ last.rec.wrote_shell
                         /\ files[RecSh] = ShFile(ScriptText(last.rec.script.s))

\* a title with a quote and a script came back from the scan
C8_Witness ==
    /\ last.op = "record" /\ last.rec.wrote_json /\ last.rec.wrote_shell
    /\ Quote \in {last.rec.title.s[i] : i \in 1..Len(last.rec.title.s)}
    /\ "openaction" \in DOMAIN load_object_descriptor(files, RecJson).f

HasOpenAction(d) == "openaction" \in DOMAIN d.f

\* C9: a descriptor written by record_history has an open action, ("shell",
\* "<stem>.sh"), exactly when that call wrote the script file; an absent or
\* blank script, or a failed script write, gives none; no descriptor of the
\* history directory names a script that does not exist.
C9_ActionIffScript ==
    /\ (last.op = "record" /\ last.rec.wrote_json) =>
          LET d == load_object_descriptor(files, RecJson) IN
          /\ HasOpenAction(d) <=> last.rec.wrote_shell
          /\ last.rec.wrote_shell =>
                (last.rec.script.t = "str" /\ ~IsBlank(last.rec.script.s))
          /\ HasOpenAction(d) =>
                /\ Get(d, "openaction") =
                      JObj([command |-> Str("shell"), arg0 |-> JStr(<<basename(RecSh)>>)])
                /\ files[RecSh] = ShFile(ScriptText(last.rec.script.s))
    /\ \A q \in DOMAIN files :
          (basename(q).ext = "json" /\ basename(q).ts >= 0
             /\ HasOpenAction(load_object_descriptor(files, q)))
          => isfile(dirs, files, [q EXCEPT ![Len(q)].ext = "sh"])

\* the script write failed and the descriptor has no open action
C9_Witness ==
    /\ last.op = "record" /\ last.rec.wrote_json /\ ~last.rec.wrote_shell
    /\ last.rec.script.t = "str" /\ ~IsBlank(last.rec.script.s)
    /\ ~HasOpenAction(load_object_descriptor(files, RecJson))

\* C11: the host exposes register_started_session to handlers: when a
\* handler's launch step has started a background process, the host reference
\* it was given had a callable register_started_session, the handler called
\* it, and the session (pid, label, pgid) is recorded by the host.
C11_SessionRegistered ==
    (last.op = "launch" /\ last.sess.pid # 0) =>
        /\ HostCallable("register_started_session")
        /\ last.sess.registered

\* C12: a call of record_history whose entry has a title or an icon that is
\* absent or no string creates and changes no file and no directory, and the
\* launcher keeps running.
C12_InvalidEntryIsNoOp ==
    [][(last'.op = "record" /\ (last'.rec.title.t # "str" \/ last'.rec.icon.t # "str"))
         => (dirs' = dirs /\ files' = files /\ alive')]_vars

\* an entry whose icon is a number was refused after another entry had been
\* recorded
C12_Witness ==
    /\ last.op = "record" /\ last.rec.icon.t = "num" /\ ~last.rec.probed
    /\ nrec = 2
    /\ HistoryDir \in dirs
    /\ \A q \in DOMAIN files : dirname(q) = HistoryDir => basename(q).k = 0

\* C13: a python open action resolves arg0 against the base the launcher has
\* at the moment of the dispatch; when the file exists the handler gets a
\* context with that base, the root the launcher was started on, the
\* descriptor and the path of its file; when it does not, nothing changes and
\* no handler is loaded.
C13_PythonContext ==
    (last.op = "dispatch" /\ last.cmd = "python") =>
        IF last.ok
        THEN LET d == last.ctx.descriptor
                 arg0 == Get(Get(d, "openaction"), "arg0").s
             IN /\ last.ctx.base_path = base_path
                /\ last.ctx.root_base_path = root_base_path
                /\ dirname(last.ctx.json_path) = base_path
                /\ IF last.via = "startup"
                   THEN load_object_descriptor(files, last.ctx.json_path) = d
                   ELSE \E i \in 1..Len(icon_list) :
                           /\ icon_list[i].descriptor = d
                           /\ icon_list[i].json_path = last.ctx.json_path
                /\ last.tgt = abspath(join(base_path, arg0))
                /\ isfile(dirs, files, last.tgt)
                /\ AppendsWindow(last.out) =>
                      /\ child_windows[Len(child_windows)].plugin = last.tgt
                      /\ child_windows[Len(child_windows)].context = last.ctx
        ELSE /\ last.kept /\ last.kept_win
             /\ last.out = "none"
             /\ last.ctx = NoCtx

\* a handler was opened from a directory below the root, by a relative arg0
C13_Witness ==
    /\ last.op = "dispatch" /\ last.cmd = "python" /\ last.ok /\ last.out = "ok"
    /\ base_path = DirA
    /\ last.ctx.base_path = DirA /\ last.ctx.root_base_path = R
    /\ last.tgt = R \o <<File("plug", "py")>>
    /\ Len(child_windows) = 1

\* the same arg0 that names a file in the root names none two levels below
C13_WitnessMissing ==
    /\ last.op = "dispatch" /\ last.cmd = "python" /\ ~last.ok
    /\ base_path = DirB

\* the descriptors the dispatcher has nothing to do for: no openaction, one
\* that is no object, an arg0 that is empty or no string, a command other than
\* path, python and shell
IsNoOp(d) ==
    LET oa == Get(d, "openaction") IN
    \/ oa.t # "obj"
    \/ Get(oa, "arg0").t # "str"
    \/ Get(oa, "arg0").s = <<>>
    \/ Get(oa, "command") \notin {Str("path"), Str("python"), Str("shell")}

\* C14: the dispatcher serves no command for a descriptor without openaction,
\* with an openaction that is no object, with an empty or non-string arg0 or
\* with an unknown command, and such a dispatch changes neither the base, the
\* item list, the trail nor child_windows, starts no process, loads no handler
\* and leaves the launcher running.
C14_NoOpDispatch ==
    [][/\ \A i \in 1..Len(icon_list) :
             IsNoOp(icon_list[i].descriptor) =>
                 execute_openaction(dirs, files, base_path, icon_list[i].descriptor) = NoAction
       /\ (last'.op = "dispatch" /\ last'.cmd = "none") =>
             /\ UNCHANGED <<base_path, root_base_path, icon_list, selected, web_view,
                            breadcrumbs, child_windows, launched, dirs, files>>
             /\ last'.out = "none"
             /\ alive']_vars

\* an item with nothing to dispatch was double-clicked in a directory outside
\* the root while a handler window was held
C14_Witness ==
    /\ last.op = "dispatch" /\ last.cmd = "none" /\ last.via = "click"
    /\ base_path = DirO
    /\ \E i \in 1..Len(icon_list) :
          Get(Get(icon_list[i].descriptor, "openaction"), "arg0") = JStr(<<>>)
    /\ Len(child_windows) = 1
    /\ last.kept /\ last.kept_win

\* C15: whatever JSON values the fields title, icon, details and openaction
\* of a descriptor have, the launcher keeps running through the scan, the
\* selection and the dispatch of its item, and the directory's list shows the
\* descriptor and the one beside it.
C15_DescriptorCannotCrash ==
    /\ alive
    /\ base_path = R =>
          ItemPaths(icon_list) = <<R \o <<File("d", "json")>>, R \o <<File("n", "json")>> >>

\* the strings a descriptor may give as an asset, relative and absolute, of
\* existing and of missing files, of a directory, and with ".." after an
\* existing and after a missing directory
AssetValues ==
    { <<File("i", "png")>>,
      <<File("missing", "png")>>,
      <<Seg("a")>>,
      <<DotDot, Slash, File("i", "png")>>,
      <<Seg("a"), Slash, DotDot, Slash, File("i", "png")>>,
      <<Seg("nope"), Slash, DotDot, Slash, File("i", "png")>>,
      <<Slash, Seg("r"), Slash, File("i", "png")>>,
      <<Slash, Seg("r"), Slash, File("missing", "png")>>,
      <<Slash, Seg("r"), Slash, Seg("a"), Slash, DotDot, Slash, File("i", "png")>>,
      <<Slash, Seg("r"), Slash, Seg("nope"), Slash, DotDot, Slash, File("i", "png")>> }

AssetBases == {R, DirA, DirB}

\* the claim about resolve_icon_path for one base and one value, where target
\* is the file the value is taken to name
AssetCase(base, value, target) ==
    LET r == resolve_icon_path(dirs, files, base, JStr(value)) IN
    /\ ~r.raised
    /\ ~isfile(dirs, files, target) => ~r.some
    /\ (isfile(dirs, files, target) /\ ~isabs(value)) =>
          (r.some /\ r.p = abspath(join(base, value)))
    /\ (isfile(dirs, files, target) /\ isabs(value)) =>
          (r.some /\ r.p = Segments(value))
    /\ r.some => isfile(dirs, files, r.p)

\* C16 as stated: resolve_icon_path(base, value) is None when the file
\* base/value (value itself when absolute) does not exist, is the absolute
\* path of base/value when value is relative and that file exists, is value
\* unchanged when value is absolute and names an existing file, and is never
\* a path that names no existing file.
C16_ResolveAsset_AsStated ==
    \A base \in AssetBases, value \in AssetValues :
        AssetCase(base, value, join(base, value))

\* C16, amended: for a relative value the file that is tested and returned is
\* the path base/value with its ".." segments removed textually
\* (os.path.abspath); for an absolute value it is value as written.
C16_ResolveAsset ==
    \A base \in AssetBases, value \in AssetValues :
        AssetCase(base, value,
                  IF isabs(value) THEN Segments(value) ELSE abspath(join(base, value)))

\* back in the root after a visit below it, the scan resolved the icon of an
\* item, and of the values that name the same file through ".." the one after
\* a missing directory resolves when relative and not when absolute
C16_Witness ==
    /\ last.op = "crumb" /\ base_path = R /\ alive
    /\ \E i \in 1..Len(icon_list) : icon_list[i].icon
    /\ resolve_icon_path(dirs, files, R,
           JStr(<<Seg("nope"), Slash, DotDot, Slash, File("i", "png")>>)).some
    /\ ~resolve_icon_path(dirs, files, R,
           JStr(<<Slash, Seg("r"), Slash, Seg("nope"), Slash, DotDot, Slash,
                  File("i", "png")>>)).some
    /\ ~resolve_icon_path(dirs, files, R, JStr(<<File("missing", "png")>>)).some

\* C17: a shell dispatch whose script file exists, when Popen starts it,
\* adds one running process that leads a session of its own, and the dispatch
\* is over while the process runs; when the file is missing, or Popen fails,
\* no process is added; either way the base, the item list and the trail are
\* as before and the launcher runs on.  The end of a process does not touch the
\* launcher, the launcher can exit while a script runs, and its exit, also
\* with a hangup of its session, leaves every running script running.
C17_ShellDetached ==
    [][/\ (last'.op = "dispatch" /\ last'.cmd = "shell") =>
             /\ UNCHANGED <<base_path, root_base_path, icon_list, breadcrumbs, child_windows>>
             /\ alive' = alive
             /\ last'.ok = isfile(dirs, files, last'.tgt)
             /\ launched' = IF last'.ok /\ last'.out = "started"
                            THEN Append(launched, [cmd |-> last'.tgt, own_session |-> TRUE,
                                                   running |-> TRUE])
                            ELSE launched
             /\ ~last'.ok => last'.out = "none"
       /\ last'.op = "procexit" =>
             UNCHANGED <<base_path, icon_list, breadcrumbs, child_windows, alive>>
       /\ (alive /\ ~startup.pending) => ENABLED HostExit(TRUE)
       /\ last'.op = "exit" =>
             /\ ~alive'
             /\ \A k \in 1..Len(launched) : launched[k].running => launched'[k].running]_vars

\* the launcher has exited, with a hangup of its session, while a script it
\* started from a directory below the root is still running
C17_Witness ==
    /\ last.op = "exit" /\ ~alive
    /\ \E k \in 1..Len(launched) :
          /\ launched[k].running /\ launched[k].own_session
          /\ launched[k].cmd = R \o <<File("run", "sh")>>
    /\ base_path = DirA

\* C18: when the launcher is started on a descriptor file, the directory of
\* the file is the root and the first base, and its list is the scan of that
\* directory; the descriptor is dispatched once, as the launcher's first step,
\* before any user event, and never again; the root never changes; a path
\* action to an existing directory makes that directory the base.
C18_StartupDispatch ==
    [][/\ (startup.pending /\ last.op = "init") =>
             /\ IsDescriptorFile(dirs, files, startup.json)
             /\ root_base_path = dirname(startup.json)
             /\ base_path = root_base_path
             /\ alive => ItemPaths(icon_list) = CompletedScan(dirs, files, base_path)
       /\ startup.pending => (last'.via = "startup" \/ last'.op = "env")
       /\ last'.via = "startup" =>
             /\ startup.pending /\ ~startup'.pending
             /\ root_base_path = dirname(startup.json)
             /\ last'.op = "dispatch"
             /\ (last'.cmd = "path" /\ last'.ok) =>
                   base_path' = Walk(dirs, <<>>, last'.tgt).p
             /\ ~(last'.cmd = "path" /\ last'.ok) => base_path' = base_path
       /\ ~startup.pending => (~startup'.pending /\ last'.via # "startup")
       /\ root_base_path' = root_base_path]_vars

\* started on a descriptor of the directory below R whose path action leads
\* one level further down
C18_Witness ==
    /\ last.op = "dispatch" /\ last.via = "startup" /\ last.cmd = "path" /\ last.ok
    /\ root_base_path = DirA
    /\ base_path = DirB
    /\ ~startup.pending

RecHtml == HistPath(root_base_path, last.rec.ts, last.rec.k, "html")

\* the file of the last call of record_history with the given extension was
\* written in full
RecWritten(path, kind) == path \in DOMAIN files /\ files[path].kind = kind

\* C19 as stated: an I/O failure at a step of record_history skips every step
\* after it: after a failed write of the script neither the descriptor nor the
\* detail page is written, after a failed write of the descriptor the detail
\* page is not written.
C19_FailureAborts_AsStated ==
    (last.op = "record" /\ last.rec.probed) =>
        /\ last.rec.failed = "sh" =>
              /\ ~last.rec.wrote_json /\ ~last.rec.wrote_html
              /\ RecJson \notin DOMAIN files /\ RecHtml \notin DOMAIN files
        /\ last.rec.failed = "json" =>
              /\ ~last.rec.wrote_html
              /\ RecHtml \notin DOMAIN files

\* C19, amended: a failure of makedirs ends the call with nothing written; a
\* failed write of the script is ignored, and the descriptor, without open
\* action, and the detail page are still written; a failed write of the
\* descriptor skips the detail page; a failed write of the detail page, the
\* last step, leaves the descriptor and the script written.
C19_FailureHandling ==
    last.op = "record" =>
        /\ last.rec.failed = "mkdir" =>
              (~last.rec.probed /\ last.rec.kept_files /\ last.rec.order = <<>>)
        /\ (last.rec.probed /\ last.rec.failed = "sh") =>
              /\ ~last.rec.wrote_shell
              /\ last.rec.wrote_json /\ RecWritten(RecJson, "json")
              /\ ~HasOpenAction(load_object_descriptor(files, RecJson))
              /\ last.rec.wrote_html /\ RecWritten(RecHtml, "html")
        /\ (last.rec.probed /\ last.rec.failed = "json") =>
              /\ ~last.rec.wrote_json /\ ~RecWritten(RecJson, "json")
              /\ ~last.rec.wrote_html /\ RecHtml \notin DOMAIN files
        /\ (last.rec.probed /\ last.rec.failed = "html") =>
              /\ last.rec.wrote_json /\ RecWritten(RecJson, "json")
              /\ ~last.rec.wrote_html /\ ~RecWritten(RecHtml, "html")
              /\ last.rec.wrote_shell <=>
                    (last.rec.script.t = "str" /\ ~IsBlank(last.rec.script.s))

\* the write of the script failed and the descriptor and the detail page
\* were written all the same
C19_Witness ==
    /\ last.op = "record" /\ last.rec.probed /\ last.rec.failed = "sh"
    /\ RecWritten(RecJson, "json") /\ RecWritten(RecHtml, "html")
    /\ RecSh \in DOMAIN files /\ files[RecSh] = PartialFile

\* C20: in a call of record_history the descriptor is the last file opened
\* for writing, after the script and the detail page; hence every descriptor
\* of the history directory that loads names a detail page that is written.
C20_JsonWrittenLast ==
    (last.op = "record" /\ last.rec.probed) =>
        /\ last.rec.wrote_json => last.rec.order[Len(last.rec.order)] = "json"
        /\ \A q \in DOMAIN files :
              (basename(q).ext = "json" /\ basename(q).ts >= 0
                 /\ load_object_descriptor(files, q).t = "obj")
              => RecWritten([q EXCEPT ![Len(q)].ext = "html"], "html")

\* C20, amended: a call of record_history opens its files in the order
\* script, descriptor, detail page: the descriptor is written after the script
\* and before the detail page, and the detail page only after the descriptor
\* was written; without a failure every file of the entry is written.  A
\* descriptor that loads and has an open action names a script that is
\* written in full; its detail page may be missing or incomplete.
C20_WriteOrder ==
    (last.op = "record" /\ last.rec.probed) =>
        LET o == last.rec.order
            opened == {o[i] : i \in 1..Len(o)}
            has_script == last.rec.script.t = "str" /\ ~IsBlank(last.rec.script.s)
        IN /\ o = SelectSeq(<<"sh", "json", "html">>, LAMBDA e : e \in opened)
           /\ last.rec.failed = "none" =>
                 /\ o = (IF has_script THEN <<"sh">> ELSE <<>>) \o <<"json", "html">>
                 /\ RecWritten(RecJson, "json") /\ RecWritten(RecHtml, "html")
                 /\ has_script => RecWritten(RecSh, "sh")
           /\ "html" \in opened => (last.rec.wrote_json /\ RecWritten(RecJson, "json"))
           /\ \A q \in DOMAIN files :
                 (basename(q).ext = "json" /\ basename(q).ts >= 0
                    /\ HasOpenAction(load_object_descriptor(files, q)))
                 => RecWritten([q EXCEPT ![Len(q)].ext = "sh"], "sh")

\* the descriptor was written after the script, the write of the detail page
\* failed after that, and the descriptor loads while its detail page is
\* incomplete
C20_Witness ==
    /\ last.op = "record" /\ last.rec.probed /\ last.rec.failed = "html"
    /\ last.rec.order = <<"sh", "json", "html">>
    /\ load_object_descriptor(files, RecJson).t = "obj"
    /\ files[RecHtml] = PartialFile

\* what a step changed in the filesystem lies in the history directory of
\* the root
WritesUnderRootHistory ==
    /\ \A q \in DOMAIN files' :
          (q \notin DOMAIN files \/ files'[q] # files[q])
              => IsPrefix(root_base_path \o <<Seg("History")>>, q)
    /\ DOMAIN files \subseteq DOMAIN files'
    /\ dirs' \ dirs \subseteq {root_base_path \o <<Seg("History")>>}
    /\ dirs \subseteq dirs'

\* C21: no step changes root_base_path, which is the absolute path the window
\* was constructed on; base_path changes only in a step of change_base_path
\* (a path dispatch that passed its test, or a crumb); a python, shell or
\* unknown-command dispatch, a selection, a click on the empty area, a call
\* of record_history and the launch step of a handler, which calls
\* record_history, leave both as they were; and what record_history writes, it
\* writes in root_base_path/History, whatever base_path is.
C21_BasesFrame ==
    [][/\ root_base_path' = root_base_path
       /\ root_base_path = abspath(R)
       /\ base_path' # base_path =>
             \/ last'.op = "crumb"
             \/ last'.op = "dispatch" /\ last'.cmd = "path" /\ last'.ok
       /\ (\/ last'.op \in {"select", "deselect", "record", "launch"}
           \/ last'.op = "dispatch" /\ last'.cmd # "path")
             => base_path' = base_path
       /\ last'.op \in {"record", "launch"} => WritesUnderRootHistory
       /\ (last'.op \in {"record", "launch"} /\ last'.rec.wrote_json) =>
             /\ HistPath(root_base_path, last'.rec.ts, last'.rec.k, "json") \in DOMAIN files'
             /\ files'[HistPath(root_base_path, last'.rec.ts, last'.rec.k, "json")]
                    # PartialFile]_vars

\* a handler opened in the directory below the root has recorded its launch
\* while that directory was shown, and the descriptor is in the history
\* directory of the root
C21_Witness ==
    /\ last.op = "launch" /\ last.sess.recorded /\ last.rec.wrote_json
    /\ base_path = DirA /\ root_base_path = R
    /\ HistPath(R, last.rec.ts, last.rec.k, "json") \in DOMAIN files
    /\ \A q \in DOMAIN files : ~IsPrefix(DirA \o <<Seg("History")>>, q)

\* the step is one of change_base_path
IsChangeBase ==
    \/ last'.op = "crumb"
    \/ last'.op = "dispatch" /\ last'.cmd = "path" /\ last'.ok

NoDuplicate(items) ==
    \A i, j \in 1..Len(items) : items[i].json_path = items[j].json_path => i = j

\* the descriptors record_history has written whole into the history directory
RecordedDescriptors(D, F, root) ==
    {q \in DOMAIN F : /\ dirname(q) = root \o <<Seg("History")>>
                      /\ basename(q).ext = "json"
                      /\ Truthy(load_object_descriptor(F, q))}

\* C22: while the launcher runs, every step of change_base_path leaves in the
\* item list exactly the descriptors of a scan of the new base_path, each
\* once, and no other step changes the list; a descriptor record_history
\* writes is not in the list after the call, and every recorded descriptor
\* is in the list after a change_base_path to the history directory, also
\* when that directory was shown when it was recorded.
C22_ListIsLastScan ==
    [][alive' =>
        /\ IsChangeBase =>
              /\ ItemPaths(icon_list') = CompletedScan(dirs, files, base_path')
              /\ NoDuplicate(icon_list')
        /\ ~IsChangeBase => icon_list' = icon_list
        /\ (last'.op = "record" /\ last'.rec.probed) =>
              \A i \in 1..Len(icon_list') :
                  icon_list'[i].json_path
                      # HistPath(root_base_path, last'.rec.ts, last'.rec.k, "json")
        /\ (IsChangeBase /\ base_path' = root_base_path \o <<Seg("History")>>) =>
              \A q \in RecordedDescriptors(dirs, files, root_base_path) :
                  \E i \in 1..Len(icon_list') : icon_list'[i].json_path = q]_vars

\* the step x is among the steps st of a launch
Took(st, x) == \E n \in 1..Len(st) : st[n] = x

\* every x among the steps st comes before every y
Before(st, x, y) == \A m, n \in 1..Len(st) : (st[m] = x /\ st[n] = y) => m < n

\* C23: in the launch step of the Jupyter handler, record_history is called
\* only when Popen returned a process and the box "Don't record history" is
\* not ticked, and without the call no file changes; the lookup of
\* register_started_session and the registration come before the lookup of
\* record_history and the recording; when os.getpgid fails the launch is
\* recorded as without the failure, when record_history meets an I/O failure
\* the registration is as without it, and in both cases the window is closed
\* and the launcher runs on; the window is closed last on every path, also
\* when Popen raises, and then no process is added and nothing is recorded.
C23_LaunchStep ==
    [][last'.op = "launch" =>
        LET sess == last'.sess
            st == sess.steps
        IN /\ sess.recorded => (sess.pid # 0 /\ ~sess.dont_record)
           /\ sess.recorded <=> Took(st, "record")
           /\ sess.registered <=> Took(st, "register")
           /\ ~sess.recorded =>
                 /\ files' = files /\ dirs' = dirs /\ nrec' = nrec
                 /\ last'.rec = NoRec
           /\ Before(st, "register", "record")
           /\ Before(st, "getattr_register", "getattr_record")
           /\ Before(st, "getattr_register", "record")
           /\ (sess.pid # 0 /\ sess.pgid = 0) =>
                 /\ sess.recorded <=> ~sess.dont_record
                 /\ alive'
           /\ (sess.recorded /\ last'.rec.failed # "none") =>
                 /\ sess.registered <=> HostCallable("register_started_session")
                 /\ alive'
           /\ ~child_windows[sess.win].closed
           /\ child_windows'[sess.win].closed
           /\ st[Len(st)] = "close"
           /\ sess.pid = 0 =>
                 /\ st = <<"popen", "close">>
                 /\ launched' = launched
                 /\ ~sess.recorded]_vars

\* a launch whose process was started and whose group could not be read has
\* been recorded, the write of the descriptor failed, and the handler window
\* is closed
C23_Witness ==
    /\ last.op = "launch" /\ last.sess.pid # 0 /\ last.sess.pgid = 0
    /\ last.sess.recorded /\ last.rec.failed = "json"
    /\ child_windows[last.sess.win].closed
    /\ alive

\* a launch whose Popen raised: the window is closed and nothing is recorded
C23_WitnessPopenFails ==
    /\ last.op = "launch" /\ last.sess.pid = 0 /\ ~last.sess.dont_record
    /\ child_windows[last.sess.win].closed
    /\ ~last.sess.recorded /\ nrec = 0

\* an absolute path without ".." segments
Normalised(p) == \A n \in 1..Len(p) : p[n] \notin {DotDot, Slash}

\* C24: while the launcher runs, whatever base_path is, below root_base_path
\* or not, the activation of the last crumb of the trail leaves base_path as
\* it was, and the activation of any crumb leaves in base_path an absolute
\* normalised path and a trail that starts with Home and whose last crumb
\* leads to the new base_path.
C24_CrumbsAnywhere ==
    [][(last'.op = "crumb" /\ alive') =>
        /\ last'.tgt = breadcrumbs[Len(breadcrumbs)][2] => base_path' = base_path
        /\ Normalised(base_path')
        /\ base_path' = abspath(last'.tgt)
        /\ breadcrumbs'[1] = <<Home, root_base_path>>
        /\ abspath(breadcrumbs'[Len(breadcrumbs')][2]) = base_path']_vars

\* the three files of the stem launcher p chose hold what p recorded
OwnRecordPresent(p) ==
    LET rec == recorders[p]
        d == load_object_descriptor(files, HistPath(root_base_path, rec.ts, rec.k, "json"))
        sh_path == HistPath(root_base_path, rec.ts, rec.k, "sh")
    IN /\ Truthy(d)
       /\ Get(d, "title") = rec.entry.title
       /\ sh_path \in DOMAIN files
       /\ files[sh_path] = ShFile(ScriptText(rec.entry.replay_shell_script.s))
       /\ HistPath(root_base_path, rec.ts, rec.k, "html") \in DOMAIN files

\* C25: when two launcher processes on the same root have each recorded an
\* entry in the same second, whatever the interleaving of their probes and
\* writes, their stems differ and the descriptor, the script and the detail
\* page of each hold what that process recorded.
C25_ConcurrentRecords ==
    \A p, q \in Launchers :
        (/\ p # q
         /\ recorders[p].pc = "done" /\ recorders[q].pc = "done"
         /\ recorders[p].ts = recorders[q].ts)
        => /\ recorders[p].k # recorders[q].k
           /\ OwnRecordPresent(p)
           /\ OwnRecordPresent(q)

====
